---- MODULE Spec2Model ----
(***************************************************************************)
(* Model of src/app.py (cinematic image generator): one run of main():     *)
(* the reference-image registration loop, the "Generate Images" button,    *)
(* the per-scene submit / poll loop, and the display / packaging of the    *)
(* collected images.  Every HTTP exchange with the remote service is one   *)
(* step; the remote's answer is a nondeterministic input of that step.     *)
(* requests.* raises on a transport error and nothing in app.py catches    *)
(* it, so a transport error ends the run (pc = "crashed").                 *)
(***************************************************************************)
EXTENDS Integers, Sequences, FiniteSets, TLC

\* ---------------------------------------------------------------- bounds
MaxScenes == 3          \* scenes in the script
MaxRefs == 2            \* reference slots offered (the widget allows 0..5)
MaxUrls == 2            \* images a COMPLETE status response can carry
MaxLen == 5             \* characters of a script handed to parse_script

\* ------------------------------------------------------ program constants
MAX_IMAGES == 252
MAX_RETRIES == 30

Alchemy == "Alchemy"
PhotoReal == "PhotoReal"
MODELS == {Alchemy, PhotoReal}

Tags == {"character", "style", "location", "other"}

\* ------------------------------------------------------------ input sets
NoImage == "no_image"
Images == {"imgA", "imgB"}
Descriptions == {"", "ref"}
DefaultTag == "character"
\* widget values of one reference slot; a slot left without an image or
\* without a description keeps the default tag of its selectbox
Widgets == {w \in [image : Images \cup {NoImage}, description : Descriptions, tag : Tags] :
               (w.image = NoImage \/ w.description = "") => w.tag = DefaultTag}

Min(a, b) == IF a < b THEN a ELSE b

\* The scenes parsed from the script: scene k carries script line k; even
\* scenes have a description.
SceneList(n) == [k \in 1..n |-> [script |-> k,
                                 description |-> IF k % 2 = 0 THEN "desc" ELSE ""]]

\* The characters of a script: two letters, the blank and the line feed
Chars == {"a", "d", " ", "\n"}
Whitespace == {" "}

RECURSIVE TextsOfLen(_)
TextsOfLen(n) == IF n = 0 THEN {<<>>}
                 ELSE {<<c>> \o t : c \in Chars, t \in TextsOfLen(n - 1)}
Scripts == UNION {TextsOfLen(n) : n \in 0..MaxLen}

\* A script of n scenes, the even ones with a description: the text the
\* scenes of SceneList(n) stand for
RECURSIVE ScriptText(_)
ScriptText(n) ==
    IF n = 0 THEN <<>>
    ELSE (IF n = 1 THEN <<>>
          ELSE ScriptText(n - 1) \o (IF n % 2 = 0 THEN <<"\n", "\n">> ELSE <<"\n">>))
         \o <<"a">> \o (IF n % 2 = 0 THEN <<"\n", "d">> ELSE <<>>)

VARIABLES
    apiKey,            \* LEONARDO_API_KEY is set
    script,            \* text of the script text area
    scenes,            \* parse_script(script)
    num_images,        \* slider value
    selected_model,    \* selectbox value
    num_refs,          \* number_input value
    pc,                \* position of main()
    slot,              \* reference loop index (1-based)
    cur,               \* widget values of the slot being uploaded
    widgets,           \* image and description of the slots processed so far
    uploaded_refs,     \* list of {image, description, tag, id}
    reference_images,  \* list of {image, description, tag}
    uploadTrace,       \* upload requests issued: slot, image, phase, result
    ref_ids,           \* init image ids handed to create_generation (<<>> is None)
    i,                 \* scene loop ordinal (1-based)
    prompt,            \* prompt of the scene being generated
    generation_id,     \* job polled by get_generation_images
    attempt,           \* status queries issued by the running get_generation_images
    submits,           \* create-generation requests issued per scene
    payload,           \* payload of the last create-generation request
    jobs,              \* per scene: how far its generation job got
    images,            \* per scene: what get_generation_images returned to main()
    generated_images,  \* list of {url, prompt}
    progress,          \* numerator of the last progress_bar value (over num_images)
    st_log,            \* st.error / st.success messages
    shown,             \* captions and download buttons rendered
    zipped,            \* file names written to the archive
    lastReq,           \* kind of the last HTTP request sent ("none" if none)
    status_response,   \* answer to the last status query ("none": no answer)
    exception          \* request whose transport error ended the run

vars == <<apiKey, script, scenes, num_images, selected_model, num_refs, pc, slot, cur,
          widgets, uploaded_refs, reference_images, uploadTrace, ref_ids, i,
          prompt, generation_id, attempt, submits, payload, jobs, images,
          generated_images, progress, st_log, shown, zipped, lastReq,
          status_response, exception>>

inputVars == <<apiKey, script, scenes, num_images, selected_model, num_refs>>
refVars == <<slot, cur, widgets, uploaded_refs, reference_images, uploadTrace>>
batchVars == <<ref_ids, i, prompt, generation_id, attempt, submits, payload,
               jobs, images, generated_images, progress, status_response>>
outVars == <<shown, zipped>>

NoWidget == [image |-> NoImage, description |-> "", tag |-> DefaultTag]
NoPayload == [prompt |-> <<>>, modelId |-> "none", init_image_ids |-> <<>>,
              photoReal |-> FALSE, alchemy |-> FALSE, promptMagic |-> FALSE]

Msg(k, n, d) == [kind |-> k, scene |-> n, description |-> d]

Init ==
    /\ apiKey \in BOOLEAN
    /\ \E n \in 1..MaxScenes : script = ScriptText(n) /\ scenes = SceneList(n)
    /\ num_images \in 1..Min(Len(scenes), MAX_IMAGES)
    /\ selected_model \in MODELS
    /\ num_refs \in 0..MaxRefs
    /\ pc = "refs"
    /\ slot = 1
    /\ cur = NoWidget
    /\ widgets = <<>>
    /\ uploaded_refs = <<>>
    /\ reference_images = <<>>
    /\ uploadTrace = <<>>
    /\ ref_ids = <<>>
    /\ i = 1
    /\ prompt = <<>>
    /\ generation_id = 0
    /\ attempt = 0
    /\ submits = [k \in 1..num_images |-> 0]
    /\ payload = NoPayload
    /\ jobs = [k \in 1..num_images |-> "none"]
    /\ images = [k \in 1..num_images |-> "not_called"]
    /\ generated_images = <<>>
    /\ progress = 0
    /\ st_log = <<>>
    /\ shown = <<>>
    /\ zipped = <<>>
    /\ lastReq = "none"
    /\ status_response = "none"
    /\ exception = "none"

\* ----------------------------------------------------------- parse_script
\* str.split('\n'): the lines of a text, at least one
RECURSIVE split(_)
split(s) ==
    IF s = <<>> THEN << <<>> >>
    ELSE LET rest == split(Tail(s)) IN
         IF Head(s) = "\n" THEN << <<>> >> \o rest
         ELSE << <<Head(s)>> \o Head(rest) >> \o Tail(rest)

RECURSIVE lstrip(_)
lstrip(s) == IF s /= <<>> /\ Head(s) \in Whitespace THEN lstrip(Tail(s)) ELSE s

RECURSIVE rstrip(_)
rstrip(s) == IF s /= <<>> /\ s[Len(s)] \in Whitespace
             THEN rstrip(SubSeq(s, 1, Len(s) - 1)) ELSE s

\* str.strip()
strip(s) == rstrip(lstrip(s))

\* line 86
lines == split(script)

\* the state in which parse_script is entered: the page has drawn nothing
\* but the text area, and scenes is the empty list of line 85
InitParse ==
    /\ script \in Scripts
    /\ scenes = <<>>
    /\ i = 1
    /\ pc = "parse_script"
    /\ apiKey = FALSE
    /\ num_images = 1
    /\ selected_model = Alchemy
    /\ num_refs = 0
    /\ slot = 1
    /\ cur = NoWidget
    /\ widgets = <<>>
    /\ uploaded_refs = <<>>
    /\ reference_images = <<>>
    /\ uploadTrace = <<>>
    /\ ref_ids = <<>>
    /\ prompt = <<>>
    /\ generation_id = 0
    /\ attempt = 0
    /\ submits = [k \in 1..num_images |-> 0]
    /\ payload = NoPayload
    /\ jobs = [k \in 1..num_images |-> "none"]
    /\ images = [k \in 1..num_images |-> "not_called"]
    /\ generated_images = <<>>
    /\ progress = 0
    /\ st_log = <<>>
    /\ shown = <<>>
    /\ zipped = <<>>
    /\ lastReq = "none"
    /\ status_response = "none"
    /\ exception = "none"

\* every line starts a scene of its own
ParseStep_single ==
    /\ pc = "parse_script"
    /\ i <= Len(lines)
    /\ LET line == strip(lines[i]) IN
       IF line /= <<>>
       THEN LET description == IF i + 1 <= Len(lines) /\ strip(lines[i + 1]) /= <<>>
                               THEN strip(lines[i + 1]) ELSE <<>> IN
            /\ scenes' = Append(scenes, [script |-> line, description |-> description])
            /\ i' = i + 1
       ELSE /\ i' = i + 1
            /\ UNCHANGED scenes
    /\ UNCHANGED <<apiKey, script, num_images, selected_model, num_refs, pc, refVars,
                   ref_ids, prompt, generation_id, attempt, submits, payload, jobs,
                   images, generated_images, progress, status_response, st_log,
                   outVars, lastReq, exception>>

\* lines 88-98: one turn of the while loop (i counts the lines from 1)
ParseStep ==
    /\ pc = "parse_script"
    /\ i <= Len(lines)
    /\ LET line == strip(lines[i]) IN
       IF line /= <<>>
       THEN LET description == IF i + 1 <= Len(lines) /\ strip(lines[i + 1]) /= <<>>
                               THEN strip(lines[i + 1]) ELSE <<>> IN
            /\ scenes' = Append(scenes, [script |-> line, description |-> description])
            /\ i' = IF description /= <<>> THEN i + 2 ELSE i + 1
       ELSE /\ i' = i + 1
            /\ UNCHANGED scenes
    /\ UNCHANGED <<apiKey, script, num_images, selected_model, num_refs, pc, refVars,
                   ref_ids, prompt, generation_id, attempt, submits, payload, jobs,
                   images, generated_images, progress, status_response, st_log,
                   outVars, lastReq, exception>>

\* lines 88, 99: the loop is left and scenes returned
ParseReturn ==
    /\ pc = "parse_script"
    /\ i > Len(lines)
    /\ pc' = "parsed"
    /\ UNCHANGED <<inputVars, refVars, batchVars, outVars, st_log, lastReq, exception>>

NextParse ==
    \/ ParseStep
    \/ ParseReturn

\* parse_script on every text of at most MaxLen characters; the loop is
\* sequential code, so a turn that can be taken is taken
SpecParse == InitParse /\ [][NextParse]_vars /\ WF_vars(NextParse)

\* ------------------------------------------------ reference registration
UploadedImages == {uploaded_refs[k].image : k \in 1..Len(uploaded_refs)}

NeedsUpload_nodedup(w) ==
    /\ w.image /= NoImage
    /\ w.description /= ""

\* line 253-254: the slot has an image and a description and the image is
\* not among the already uploaded ones
NeedsUpload(w) ==
    /\ w.image /= NoImage
    /\ w.description /= ""
    /\ w.image \notin UploadedImages

\* what a slot asked to register: its image and its description
Requested(w) == [image |-> w.image, description |-> w.description]

Trace(s, img, ph, r) == [slot |-> s, image |-> img, phase |-> ph, result |-> r]

\* uncaught exception raised by requests.post / requests.get
Crash(req) ==
    /\ pc' = "crashed"
    /\ exception' = req

\* the id the remote assigns to a created init image
NewInitId == Cardinality({k \in 1..Len(uploadTrace) :
                 uploadTrace[k].phase = 3 /\ uploadTrace[k].result = "ok"}) + 1

\* lines 240-254: a slot that triggers no upload
RefNoUpload ==
    /\ pc = "refs"
    /\ slot <= num_refs
    /\ \E w \in Widgets :
        /\ ~NeedsUpload(w)
        /\ widgets' = Append(widgets, Requested(w))
    /\ slot' = slot + 1
    /\ UNCHANGED <<inputVars, pc, cur, uploaded_refs, reference_images, uploadTrace,
                   batchVars, st_log, outVars, lastReq, exception>>

\* lines 253-258 and 37-45: first request of upload_reference_image
RefRequestTarget ==
    /\ pc = "refs"
    /\ slot <= num_refs
    /\ \E w \in Widgets, r \in {"ok", "http_error", "exception"} :
        /\ NeedsUpload(w)
        /\ widgets' = Append(widgets, Requested(w))
        /\ uploadTrace' = Append(uploadTrace, Trace(slot, w.image, 1, r))
        /\ lastReq' = "init-image"
        /\ CASE r = "ok" ->
                  /\ pc' = "upload_file"
                  /\ cur' = w
                  /\ UNCHANGED <<slot, st_log, exception>>
             [] r = "http_error" ->
                  /\ st_log' = st_log \o <<Msg("Error getting upload URL", 0, ""),
                                  Msg("Failed to upload reference image", 0, w.description)>>
                  /\ slot' = slot + 1
                  /\ UNCHANGED <<pc, cur, exception>>
             [] r = "exception" ->
                  /\ Crash("init-image")
                  /\ UNCHANGED <<slot, cur, st_log>>
    /\ UNCHANGED <<inputVars, uploaded_refs, reference_images, batchVars, outVars>>

\* a refused transfer is reported but the init image is created all the same
RefTransfer_noreturn ==
    /\ pc = "upload_file"
    /\ \E r \in {"ok", "http_error", "exception"} :
        /\ uploadTrace' = Append(uploadTrace, Trace(slot, cur.image, 2, r))
        /\ lastReq' = "upload"
        /\ CASE r = "ok" ->
                  /\ pc' = "create_init_image"
                  /\ UNCHANGED <<slot, cur, st_log, exception>>
             [] r = "http_error" ->
                  /\ st_log' = Append(st_log, Msg("Error uploading file", 0, ""))
                  /\ pc' = "create_init_image"
                  /\ UNCHANGED <<slot, cur, exception>>
             [] r = "exception" ->
                  /\ Crash("upload")
                  /\ UNCHANGED <<slot, cur, st_log>>
    /\ UNCHANGED <<inputVars, widgets, uploaded_refs, reference_images, batchVars, outVars>>

\* lines 49-63: transfer of the file to the upload target
RefTransfer ==
    /\ pc = "upload_file"
    /\ \E r \in {"ok", "http_error", "exception"} :
        /\ uploadTrace' = Append(uploadTrace, Trace(slot, cur.image, 2, r))
        /\ lastReq' = "upload"
        /\ CASE r = "ok" ->
                  /\ pc' = "create_init_image"
                  /\ UNCHANGED <<slot, cur, st_log, exception>>
             [] r = "http_error" ->
                  /\ st_log' = st_log \o <<Msg("Error uploading file", 0, ""),
                                  Msg("Failed to upload reference image", 0, cur.description)>>
                  /\ slot' = slot + 1
                  /\ pc' = "refs"
                  /\ cur' = NoWidget
                  /\ UNCHANGED exception
             [] r = "exception" ->
                  /\ Crash("upload")
                  /\ UNCHANGED <<slot, cur, st_log>>
    /\ UNCHANGED <<inputVars, widgets, uploaded_refs, reference_images, batchVars, outVars>>

\* lines 65-81 and 259-273: creation of the init image record and the
\* bookkeeping of main()
RefCreate ==
    /\ pc = "create_init_image"
    /\ \E r \in {"ok", "ok_no_record", "http_error", "exception"} :
        /\ uploadTrace' = Append(uploadTrace, Trace(slot, cur.image, 3, r))
        /\ lastReq' = "create-init-image"
        /\ CASE r = "ok" ->
                  /\ uploaded_refs' = Append(uploaded_refs,
                         [image |-> cur.image, description |-> cur.description,
                          tag |-> cur.tag, id |-> NewInitId])
                  /\ reference_images' = Append(reference_images,
                         [image |-> cur.image, description |-> cur.description,
                          tag |-> cur.tag])
                  /\ st_log' = Append(st_log,
                         Msg("Successfully uploaded reference image", 0, cur.description))
                  /\ slot' = slot + 1
                  /\ pc' = "refs"
                  /\ cur' = NoWidget
                  /\ UNCHANGED exception
             [] r = "ok_no_record" ->
                  /\ st_log' = Append(st_log,
                         Msg("Failed to upload reference image", 0, cur.description))
                  /\ slot' = slot + 1
                  /\ pc' = "refs"
                  /\ cur' = NoWidget
                  /\ UNCHANGED <<uploaded_refs, reference_images, exception>>
             [] r = "http_error" ->
                  /\ st_log' = st_log \o <<Msg("Error creating init image", 0, ""),
                                  Msg("Failed to upload reference image", 0, cur.description)>>
                  /\ slot' = slot + 1
                  /\ pc' = "refs"
                  /\ cur' = NoWidget
                  /\ UNCHANGED <<uploaded_refs, reference_images, exception>>
             [] r = "exception" ->
                  /\ Crash("create-init-image")
                  /\ UNCHANGED <<slot, cur, st_log, uploaded_refs, reference_images>>
    /\ UNCHANGED <<inputVars, widgets, batchVars, outVars>>

\* ------------------------------------------------------- prompt, payload
ModelId(name) == IF name = PhotoReal THEN "291be633-cb24-434f-898f-e662799936ad"
                 ELSE "ac614f96-1082-45bf-be9d-757f2d31c174"

Clause(k, n, s, d, t) == [kind |-> k, num |-> n, script |-> s, description |-> d, tag |-> t]

\* lines 112-120: the conditioning sentence of one reference, chosen by tag
RefClause(ref) ==
    IF ref.tag = "character" THEN Clause("character", 0, 0, ref.description, "")
    ELSE IF ref.tag = "style" THEN Clause("style", 0, 0, ref.description, "")
    ELSE IF ref.tag = "location" THEN Clause("location", 0, 0, ref.description, "")
    ELSE Clause("incorporate", 0, 0, ref.description, ref.tag)

generate_cinematic_prompt_reversed(scene, scene_num, refs) ==
    <<Clause("scene", scene_num, scene.script, scene.description, ""),
      Clause("cinematic", 0, 0, "", "")>>
    \o [k \in 1..Len(refs) |-> RefClause(refs[Len(refs) + 1 - k])]

\* lines 101-123: the prompt as the sequence of its sentences; the scene
\* sentence carries the description only when it is non-empty
generate_cinematic_prompt(scene, scene_num, refs) ==
    <<Clause("scene", scene_num, scene.script, scene.description, ""),
      Clause("cinematic", 0, 0, "", "")>>
    \o [k \in 1..Len(refs) |-> RefClause(refs[k])]

ModelFlags_both(model_id) ==
    IF model_id = ModelId(PhotoReal)
    THEN [photoReal |-> TRUE, alchemy |-> FALSE, promptMagic |-> FALSE]
    ELSE [photoReal |-> TRUE, alchemy |-> TRUE, promptMagic |-> TRUE]

\* lines 146-151: the model specific flags
ModelFlags(model_id) ==
    IF model_id = ModelId(PhotoReal)
    THEN [photoReal |-> TRUE, alchemy |-> FALSE, promptMagic |-> FALSE]
    ELSE [photoReal |-> FALSE, alchemy |-> TRUE, promptMagic |-> TRUE]

\* lines 133-154: the request payload (a flag that is FALSE is absent, and
\* so is an empty init_image_ids)
CreatePayload(p, model_id, ids) ==
    [prompt |-> p, modelId |-> model_id, init_image_ids |-> ids,
     photoReal |-> ModelFlags(model_id).photoReal,
     alchemy |-> ModelFlags(model_id).alchemy,
     promptMagic |-> ModelFlags(model_id).promptMagic]

RefIds_reversed == [k \in 1..Len(uploaded_refs) |->
                       uploaded_refs[Len(uploaded_refs) + 1 - k].id]

\* line 285
RefIds == [k \in 1..Len(uploaded_refs) |-> uploaded_refs[k].id]

\* ------------------------------------------------------------ the button
\* line 276: the run ends without a click on "Generate Images"
GenerateNotClicked ==
    /\ pc = "refs"
    /\ slot > num_refs
    /\ pc' = "idle"
    /\ UNCHANGED <<inputVars, refVars, batchVars, st_log, outVars, lastReq, exception>>

\* lines 276-285
GenerateClicked ==
    /\ pc = "refs"
    /\ slot > num_refs
    /\ IF ~apiKey
       THEN /\ st_log' = Append(st_log, Msg("Please set your Leonardo API key", 0, ""))
            /\ pc' = "config_error"
            /\ UNCHANGED <<ref_ids, i, progress, generated_images>>
       ELSE /\ progress' = 0
            /\ generated_images' = <<>>
            /\ ref_ids' = RefIds
            /\ i' = 1
            /\ pc' = "submit"
            /\ UNCHANGED st_log
    /\ UNCHANGED <<inputVars, refVars, prompt, generation_id, attempt, submits, payload,
                   jobs, images, outVars, lastReq, status_response, exception>>

\* ------------------------------------------------------------ submission
NextScene_again ==
    /\ i' = i
    /\ pc' = "submit"

\* line 301, 309: continue with the next scene
NextScene ==
    /\ i' = i + 1
    /\ pc' = "submit"

\* the job is created but main() goes on with the next scene at once
Submit_nowait ==
    /\ pc = "submit"
    /\ i <= num_images
    /\ LET p == generate_cinematic_prompt(scenes[i], i, reference_images) IN
       /\ prompt' = p
       /\ payload' = CreatePayload(p, ModelId(selected_model), ref_ids)
    /\ submits' = [submits EXCEPT ![i] = @ + 1]
    /\ lastReq' = "generations"
    /\ status_response' = "none"
    /\ generation_id' = i
    /\ jobs' = [jobs EXCEPT ![i] = "polling"]
    /\ NextScene
    /\ UNCHANGED <<inputVars, refVars, ref_ids, images, generated_images, progress, outVars,
                   attempt, st_log, exception>>

\* lines 287-303 and 156-166: prompt, create_generation and its answer
Submit ==
    /\ pc = "submit"
    /\ i <= num_images
    /\ LET p == generate_cinematic_prompt(scenes[i], i, reference_images) IN
       /\ prompt' = p
       /\ payload' = CreatePayload(p, ModelId(selected_model), ref_ids)
    /\ submits' = [submits EXCEPT ![i] = @ + 1]
    /\ lastReq' = "generations"
    /\ status_response' = "none"
    /\ \E r \in {"job", "no_job", "http_error", "exception"} :
        CASE r = "job" ->
                  \* the remote names the job after the request it answers
                  /\ generation_id' = i
                  /\ jobs' = [jobs EXCEPT ![i] = "polling"]
                  /\ attempt' = 0
                  /\ pc' = "poll"
                  /\ UNCHANGED <<i, st_log, exception>>
          [] r = "no_job" ->
                  /\ st_log' = Append(st_log, Msg("Failed to create generation", i, ""))
                  /\ NextScene
                  /\ UNCHANGED <<generation_id, jobs, attempt, exception>>
          [] r = "http_error" ->
                  /\ st_log' = st_log \o <<Msg("Error creating generation", 0, ""),
                                           Msg("Failed to create generation", i, "")>>
                  /\ NextScene
                  /\ UNCHANGED <<generation_id, jobs, attempt, exception>>
          [] r = "exception" ->
                  /\ Crash("generations")
                  /\ UNCHANGED <<i, generation_id, jobs, attempt, st_log>>
    /\ UNCHANGED <<inputVars, refVars, ref_ids, images, generated_images, progress, outVars>>

\* --------------------------------------------------------------- polling
RetryBudgetLeft_short(a) == a < MAX_RETRIES - 1

RetryBudgetLeft_always(a) == a >= 0

\* line 175: for attempt in range(MAX_RETRIES)
RetryBudgetLeft(a) == a < MAX_RETRIES

\* a 200 answer to a status query: whether it has "generations_by_pk", the
\* status of that record and the number of its generated_images
StatusResponses ==
    {r \in [has_record : BOOLEAN, status : {"PENDING", "COMPLETE", "FAILED"},
            n : 0..MaxUrls] :
        /\ ~r.has_record => (r.status = "PENDING" /\ r.n = 0)
        /\ r.status /= "COMPLETE" => r.n = 0}

Kind(r) ==
    IF ~r.has_record THEN "NO_RECORD"
    ELSE IF r.status = "COMPLETE" /\ r.n = 0 THEN "COMPLETE_EMPTY"
    ELSE r.status

StatusOutcome_strict(r) ==
    IF r.has_record /\ r.status = "COMPLETE" /\ r.n > 0 THEN "data"
    ELSE IF r.has_record /\ r.status = "PENDING" THEN "retry"
    ELSE "none"

\* lines 187-196: what get_generation_images does with a 200 answer:
\* return data, return None, or sleep and query again
StatusOutcome(r) ==
    IF r.has_record
    THEN IF r.status = "COMPLETE"
         THEN IF r.n > 0 THEN "data" ELSE "retry"
         ELSE IF r.status = "FAILED" THEN "none" ELSE "retry"
    ELSE "retry"

\* the status query of one loop iteration (lines 176-179)
Query ==
    /\ pc = "poll"
    /\ RetryBudgetLeft(attempt)
    /\ attempt' = attempt + 1
    /\ lastReq' = "status"

\* lines 306-309: get_generation_images returned None
PollGaveNone ==
    /\ images' = [images EXCEPT ![i] = "None"]
    /\ NextScene
    /\ attempt' = 0

pollFrame == <<inputVars, refVars, ref_ids, prompt, generation_id, submits, payload, outVars>>

\* requests.get raises: nothing catches it
PollException ==
    /\ Query
    /\ Crash("status")
    /\ status_response' = "none"
    /\ UNCHANGED <<pollFrame, i, jobs, images, generated_images, progress, st_log>>

\* lines 181-183, 307-309: a status response other than 200
PollHttpError ==
    /\ pc = "poll"
    /\ RetryBudgetLeft(attempt)
    /\ lastReq' = "status"
    /\ status_response' = "http_error"
    /\ jobs' = [jobs EXCEPT ![i] = "status_error"]
    /\ st_log' = st_log \o <<Msg("Error getting generation status", 0, ""),
                             Msg("Failed to get images", i, "")>>
    /\ PollGaveNone
    /\ UNCHANGED <<pollFrame, generated_images, progress, exception>>

LastUrl(urls) == urls[Len(urls)]

\* line 311: generated_images[0]["url"]
FirstUrl(urls) == urls[1]

\* lines 187-191, 311-317: COMPLETE with images; the first url is kept
PollComplete ==
    /\ pc = "poll"
    /\ RetryBudgetLeft(attempt)
    /\ lastReq' = "status"
    /\ \E r \in StatusResponses :
        LET urls == [k \in 1..r.n |-> [job |-> generation_id, idx |-> k]] IN
        /\ StatusOutcome(r) = "data"
        /\ status_response' = Kind(r)
        /\ generated_images' = Append(generated_images,
                                      [url |-> FirstUrl(urls), prompt |-> prompt])
    /\ jobs' = [jobs EXCEPT ![i] = "complete"]
    /\ images' = [images EXCEPT ![i] = "data"]
    /\ progress' = i
    /\ NextScene
    /\ attempt' = 0
    /\ UNCHANGED <<pollFrame, st_log, exception>>

\* FAILED is reported but the loop is not left
PollFailed_noreturn ==
    /\ Query
    /\ status_response' = "FAILED"
    /\ jobs' = [jobs EXCEPT ![i] = "failed"]
    /\ st_log' = Append(st_log, Msg("Generation failed", 0, ""))
    /\ UNCHANGED <<pollFrame, pc, i, images, generated_images, progress, exception>>

\* lines 192-194, 307-309: FAILED
PollFailed ==
    /\ pc = "poll"
    /\ RetryBudgetLeft(attempt)
    /\ lastReq' = "status"
    /\ \E r \in StatusResponses :
        /\ StatusOutcome(r) = "none"
        /\ status_response' = Kind(r)
    /\ jobs' = [jobs EXCEPT ![i] = "failed"]
    /\ st_log' = st_log \o <<Msg("Generation failed", 0, ""),
                             Msg("Failed to get images", i, "")>>
    /\ PollGaveNone
    /\ UNCHANGED <<pollFrame, generated_images, progress, exception>>

\* lines 185-196: any other status, COMPLETE without an image, or a
\* response without "generations_by_pk": sleep and try again
PollRetry ==
    /\ Query
    /\ \E r \in StatusResponses :
        /\ StatusOutcome(r) = "retry"
        /\ status_response' = Kind(r)
    /\ UNCHANGED <<pollFrame, pc, i, jobs, images, generated_images, progress, st_log,
                   exception>>

\* lines 198-199, 307-309: the loop ran out
PollTimeout ==
    /\ pc = "poll"
    /\ ~RetryBudgetLeft(attempt)
    /\ jobs' = [jobs EXCEPT ![i] = "timed_out"]
    /\ st_log' = st_log \o <<Msg("Generation timed out after maximum retries", 0, ""),
                             Msg("Failed to get images", i, "")>>
    /\ PollGaveNone
    /\ UNCHANGED <<pollFrame, generated_images, progress, lastReq, status_response, exception>>

\* ----------------------------------------------------- display, packaging
\* lines 322-331: caption and download button of the k-th collected image
Shown(k) == [num |-> k, script |-> scenes[k].script,
             url |-> generated_images[k].url, file_name |-> k]

\* lines 319-331: after the loop
ShowResults ==
    /\ pc = "submit"
    /\ i > num_images
    /\ IF generated_images /= <<>>
       THEN /\ shown' = [k \in 1..Len(generated_images) |-> Shown(k)]
            /\ pc' = "results"
       ELSE /\ pc' = "done"
            /\ UNCHANGED shown
    /\ UNCHANGED <<inputVars, refVars, batchVars, st_log, zipped, lastReq, exception>>

\* lines 334-351: "Download All Images"; every image is fetched and stored
\* as scene_{k}.png, k its position in generated_images
DownloadAll ==
    /\ pc = "results"
    /\ lastReq' = "image"
    /\ \E r \in {"ok", "exception"} :
        IF r = "ok"
        THEN /\ zipped' = [k \in 1..Len(generated_images) |-> k]
             /\ pc' = "done"
             /\ UNCHANGED exception
        ELSE /\ Crash("image")
             /\ UNCHANGED zipped
    /\ UNCHANGED <<inputVars, refVars, batchVars, st_log, shown>>

Next ==
    \/ RefNoUpload
    \/ RefRequestTarget
    \/ RefTransfer
    \/ RefCreate
    \/ GenerateNotClicked
    \/ GenerateClicked
    \/ Submit
    \/ PollException
    \/ PollHttpError
    \/ PollComplete
    \/ PollFailed
    \/ PollRetry
    \/ PollTimeout
    \/ ShowResults
    \/ DownloadAll

Spec == Init /\ [][Next]_vars

\* Runs with the default number of reference images (0, line 237): the
\* registration actions are never enabled
InitBatch == Init /\ num_refs = 0

NextBatch ==
    \/ GenerateNotClicked
    \/ GenerateClicked
    \/ Submit
    \/ PollException
    \/ PollHttpError
    \/ PollComplete
    \/ PollFailed
    \/ PollRetry
    \/ PollTimeout
    \/ ShowResults
    \/ DownloadAll

SpecBatch == InitBatch /\ [][NextBatch]_vars

\* main() runs in one thread and every request is answered or raises: a
\* step that can be taken is taken
SpecBatchFair == SpecBatch /\ WF_vars(NextBatch)

\* Runs over a script of one scene, with any reference slots
InitRefs == Init /\ Len(scenes) = 1

SpecRefs == InitRefs /\ [][Next]_vars

\* Runs over a script of two scenes, with any reference slots, in which the
\* remote answers every status query with a final answer (an image list, a
\* failure, an HTTP error or a transport error), never with a pending one
InitCond == Init /\ Len(scenes) = 2

NextCond ==
    \/ RefNoUpload
    \/ RefRequestTarget
    \/ RefTransfer
    \/ RefCreate
    \/ GenerateNotClicked
    \/ GenerateClicked
    \/ Submit
    \/ PollException
    \/ PollHttpError
    \/ PollComplete
    \/ PollFailed
    \/ ShowResults
    \/ DownloadAll

SpecCond == InitCond /\ [][NextCond]_vars
\* ============================================================ properties
Terminal == {"complete", "failed", "status_error", "timed_out"}
FailedStates == {"failed", "status_error"}
Requested_n == 1..num_images
BatchEnded == pc \in {"results", "done"}
FailureReported(k) == \E m \in 1..Len(st_log) :
    st_log[m].kind = "Failed to get images" /\ st_log[m].scene = k
HasImage(k) == \E e \in 1..Len(generated_images) : generated_images[e].url.job = k

\* C1: a failure of a scene at submission or at polling (a transport error
\* of a status query included) never aborts the batch: when the run is over,
\* every requested scene has had its create-generation request.
C1_EverySceneSubmitted ==
    (BatchEnded \/ (pc = "crashed" /\ exception = "status"))
        => \A k \in Requested_n : submits[k] >= 1

\* C2: at the end of the batch the result holds one outcome per requested
\* scene, the k-th being the outcome of scene k.
C2_OneOutcomePerScene ==
    BatchEnded =>
        /\ Len(generated_images) = num_images
        /\ \A k \in 1..Len(generated_images) :
               jobs[k] = "complete" => generated_images[k].url.job = k

\* C3: the scene number, the script line and the file name shown or packed
\* with an image are those of the scene the image was generated for.
C3_OrdinalsKept ==
    /\ \A k \in 1..Len(shown) :
           /\ shown[k].num = shown[k].url.job
           /\ shown[k].script = scenes[shown[k].url.job].script
           /\ shown[k].file_name = shown[k].url.job
    /\ \A k \in 1..Len(zipped) : zipped[k] = generated_images[k].url.job

\* C4: after the k-th scene has finished, with or without an image, the
\* reported progress is k / num_images; it is n / n when the batch is over.
C4_ProgressAfterEachScene ==
    /\ pc = "submit" => progress = i - 1
    /\ BatchEnded => progress = num_images

\* C5: the poller never issues more than MAX_RETRIES status queries for a
\* job, a query answered with a pending status leaves the job polling and
\* counts as one query, every pass of the loop that stays in polling is one
\* more query, and a job is timed out only when exactly MAX_RETRIES queries
\* were issued.
C5_TimeoutAfterExactlyR ==
    /\ [](attempt <= MAX_RETRIES)
    /\ [][(pc = "poll" /\ attempt < MAX_RETRIES /\ status_response' = "PENDING") =>
              (pc' = "poll" /\ jobs' = jobs /\ attempt' = attempt + 1)]_vars
    /\ [][(pc = "poll" /\ pc' = "poll") =>
              (attempt < MAX_RETRIES /\ attempt' = attempt + 1)]_vars
    /\ [][\A k \in Requested_n :
              (jobs[k] /= "timed_out" /\ jobs'[k] = "timed_out")
                  => (k = i /\ pc = "poll" /\ attempt = MAX_RETRIES)]_vars

C5_Witness ==
    \E k \in Requested_n : jobs[k] = "timed_out" /\ status_response = "PENDING"

\* C6: a polled job ends in one terminal state only: a terminal state never
\* changes again, status queries are issued only for the one job that is
\* still polling, a job the orchestrator has left is terminal, and a job has
\* an image in the result exactly when it is complete and a reported
\* failure exactly when it is failed or timed out.
C6_TerminalIsFinal ==
    /\ [][\A k \in Requested_n : jobs[k] \in Terminal => jobs'[k] = jobs[k]]_vars
    /\ [](pc = "poll" => (generation_id = i /\ jobs[i] = "polling"))
    /\ [](\A k \in Requested_n :
             (jobs[k] = "polling" => (k = i /\ pc \in {"poll", "crashed"})))
    /\ [](\A k \in Requested_n :
             /\ HasImage(k) <=> jobs[k] = "complete"
             /\ FailureReported(k) <=> jobs[k] \in (Terminal \ {"complete"}))

C6_Witness ==
    /\ BatchEnded
    /\ \E a, b, c \in Requested_n :
          jobs[a] = "complete" /\ jobs[b] \in FailedStates /\ jobs[c] = "timed_out"

\* C7: a transport error or a non-success response of a status query is
\* reported as a failure of that job, and polling stops.
C7_StatusErrorIsFailed ==
    /\ exception = "status" =>
           (jobs[generation_id] \in FailedStates /\ FailureReported(generation_id))
    /\ \A k \in Requested_n : jobs[k] = "status_error" => FailureReported(k)

\* C8: with the credential missing no request is ever sent to the remote
\* service.
C8_NoRequestWithoutCredential == ~apiKey => lastReq = "none"

\* ------------------------------------------------- registration history
UploadCalls(img) == Cardinality({p \in 1..Len(uploadTrace) :
                        uploadTrace[p].phase = 1 /\ uploadTrace[p].image = img})
IsCreated(e) == e.phase = 3 /\ e.result = "ok"
IsRefused(e) == e.result \in {"http_error", "ok_no_record"}
Created == SelectSeq(uploadTrace, IsCreated)

SubmitFailed(k) == \E m \in 1..Len(st_log) :
    st_log[m].kind = "Failed to create generation" /\ st_log[m].scene = k

\* C11: no scene ever has more than one create-generation request; a scene
\* whose submission failed has had exactly one and no job, and the loop is
\* past it; when the batch is over every requested scene has had exactly one.
C11_OneSubmissionPerScene ==
    \A k \in Requested_n :
        /\ submits[k] <= 1
        /\ SubmitFailed(k) => (submits[k] = 1 /\ jobs[k] = "none" /\ i > k)
        /\ BatchEnded => submits[k] = 1

C11_Witness ==
    /\ BatchEnded
    /\ num_images >= 2
    /\ \E k \in Requested_n : SubmitFailed(k) /\ k < num_images

\* C12: an entry is added to the result only by a COMPLETE answer with an
\* image for the job being polled; it holds the first url of that job and
\* the prompt submitted for that scene; entries already there are neither
\* changed nor removed.
C12_EntryOnlyOnComplete ==
    /\ [][\A k \in 1..Len(generated_images) :
              /\ Len(generated_images') >= Len(generated_images)
              /\ generated_images'[k] = generated_images[k]]_vars
    /\ [][Len(generated_images') > Len(generated_images) =>
              /\ Len(generated_images') = Len(generated_images) + 1
              /\ pc = "poll"
              /\ status_response' = "COMPLETE"
              /\ jobs'[i] = "complete"
              /\ generated_images'[Len(generated_images')].url
                     = [job |-> generation_id, idx |-> 1]
              /\ generated_images'[Len(generated_images')].prompt = payload.prompt]_vars
    /\ [](\A e \in 1..Len(generated_images) :
             LET k == generated_images[e].url.job IN
             /\ jobs[k] = "complete"
             /\ generated_images[e].prompt
                    = generate_cinematic_prompt(scenes[k], k, reference_images))

C12_Witness ==
    /\ BatchEnded
    /\ Len(generated_images) >= 2
    /\ \E k \in Requested_n : jobs[k] \in FailedStates

\* C19: a 200 answer that is COMPLETE without an image, or that has no job
\* record, leaves the job polling, adds nothing to the result, reports
\* nothing and counts as one query; with the budget used up the only way
\* out of the loop is the timeout.
C19_EmptyAnswersAreRetried ==
    /\ [][(pc = "poll" /\ attempt < MAX_RETRIES
             /\ status_response' \in {"COMPLETE_EMPTY", "NO_RECORD"}) =>
              /\ pc' = "poll"
              /\ i' = i
              /\ jobs' = jobs
              /\ attempt' = attempt + 1
              /\ generated_images' = generated_images
              /\ st_log' = st_log]_vars
    /\ [][(pc = "poll" /\ attempt = MAX_RETRIES) => jobs'[i] = "timed_out"]_vars

C19_Witness ==
    \E k \in Requested_n :
        jobs[k] = "timed_out" /\ status_response \in {"COMPLETE_EMPTY", "NO_RECORD"}

\* what main() reports for scene k after get_generation_images returned
Reported(k) == {st_log[m].kind : m \in {n \in 1..Len(st_log) : st_log[n].scene = k}}

\* C16: main() is handed a different outcome for a job that timed out than
\* for a job that failed or whose status query was refused.
C16_TimeoutDistinctFromFailed ==
    \A a, b \in Requested_n :
        (jobs[a] = "timed_out" /\ jobs[b] \in FailedStates) =>
            (images[a] /= images[b] \/ Reported(a) /= Reported(b))

\* C17: scenes are handled one after the other in ordinal order: a scene is
\* only submitted when every scene before it has been submitted once and is
\* finished (its submission failed or its job is terminal), at most one job
\* is not terminal, and a status query is only issued for the job of the
\* current scene, whose submission succeeded.
C17_StrictlySequential ==
    /\ Cardinality({k \in Requested_n : jobs[k] = "polling"}) <= 1
    /\ \A k \in Requested_n :
           submits[k] >= 1 =>
               /\ k <= i
               /\ \A j \in 1..(k - 1) :
                      /\ submits[j] = 1
                      /\ jobs[j] \in Terminal \/ (jobs[j] = "none" /\ SubmitFailed(j))
    /\ \A k \in Requested_n : jobs[k] /= "none" => submits[k] = 1
    /\ pc = "poll" => (generation_id = i /\ jobs[i] = "polling" /\ ~SubmitFailed(i))
    /\ lastReq = "status" => (generation_id \in Requested_n /\ jobs[generation_id] /= "none")

C17_Witness ==
    /\ pc = "poll"
    /\ i = 3
    /\ attempt >= 1
    /\ SubmitFailed(1)
    /\ jobs[2] \in Terminal

\* an upper bound of the requests and loop steps main() still has to make
BatchBudget == num_images * (MAX_RETRIES + 2) + 3
StepsLeft ==
    CASE pc = "refs" -> BatchBudget + 3 * (num_refs - slot + 1)
      [] pc = "upload_file" -> BatchBudget + 3 * (num_refs - slot + 1) - 1
      [] pc = "create_init_image" -> BatchBudget + 3 * (num_refs - slot + 1) - 2
      [] pc = "submit" -> (num_images - i + 1) * (MAX_RETRIES + 2) + 2
      [] pc = "poll" -> (num_images - i) * (MAX_RETRIES + 2) + (MAX_RETRIES - attempt) + 3
      [] pc = "results" -> 1
      [] OTHER -> 0
RunOver == pc \in {"idle", "config_error", "results", "done", "crashed"}

\* C18: every run comes to its end whatever the remote answers: each step
\* uses up the budget of num_images * (MAX_RETRIES + 2) + 3 steps, no scene
\* is submitted more than once and no job is queried more than MAX_RETRIES
\* times.
C18_BatchTerminates ==
    /\ <>RunOver
    /\ [][StepsLeft' < StepsLeft]_vars
    /\ [](StepsLeft >= 0)
    /\ [](attempt <= MAX_RETRIES /\ \A k \in Requested_n : submits[k] <= 1)

C18_Witness ==
    /\ BatchEnded
    /\ num_images >= 2
    /\ \A k \in Requested_n : jobs[k] = "timed_out"

\* C13: the payload of every create-generation request (the payload is that
\* of the latest submitted scene) names the selected model and carries
\* exactly one flag set: photoReal alone for PhotoReal, alchemy and
\* promptMagic without photoReal for any other model, whatever the scene and
\* whether or not init image ids are sent.
C13_OneFlagSet ==
    /\ payload /= NoPayload =>
           /\ payload.modelId = ModelId(selected_model)
           /\ payload.photoReal <=> selected_model = PhotoReal
           /\ payload.alchemy <=> selected_model /= PhotoReal
           /\ payload.promptMagic <=> selected_model /= PhotoReal
           /\ ~(payload.photoReal /\ (payload.alchemy \/ payload.promptMagic))
    /\ \A k \in Requested_n : submits[k] >= 1 =>
           /\ payload /= NoPayload
           /\ payload.prompt[1].num >= k
    /\ payload = NoPayload => \A k \in Requested_n : submits[k] = 0

C13_Witness ==
    /\ selected_model = Alchemy
    /\ submits[1] = 1
    /\ num_images = 2
    /\ submits[2] = 1
    /\ payload.prompt[1].num = 2
    /\ Len(payload.init_image_ids) = 2
    /\ payload.alchemy

\* the registered reference an init image id was given to
RefOfId(id) == CHOOSE r \in {uploaded_refs[k] : k \in 1..Len(uploaded_refs)} : r.id = id

\* C20: the two reference lists always have the same length and hold the
\* same references in the same order, each registered under an id of its
\* own; every create-generation request carries one id per conditioning
\* clause, the k-th id being that of the reference the k-th conditioning
\* clause was made from; and a later request of the run carries the same
\* ids as the one before it.
C20_ListsAligned ==
    /\ [](/\ Len(reference_images) = Len(uploaded_refs)
          /\ \A k \in 1..Len(uploaded_refs) :
                 /\ reference_images[k].image = uploaded_refs[k].image
                 /\ reference_images[k].description = uploaded_refs[k].description
                 /\ reference_images[k].tag = uploaded_refs[k].tag
                 /\ \A j \in 1..(k - 1) : uploaded_refs[j].id /= uploaded_refs[k].id
          /\ payload /= NoPayload =>
                 /\ Len(payload.init_image_ids) = Len(uploaded_refs)
                 /\ Len(payload.prompt) = 2 + Len(payload.init_image_ids)
                 /\ \A k \in 1..Len(payload.init_image_ids) :
                        /\ payload.init_image_ids[k] = uploaded_refs[k].id
                        /\ payload.prompt[2 + k] = RefClause(RefOfId(payload.init_image_ids[k])))
    /\ [][(payload /= NoPayload /\ payload' /= payload) =>
              payload'.init_image_ids = payload.init_image_ids]_vars

C20_Witness ==
    /\ Len(uploaded_refs) = 2
    /\ uploaded_refs[1].tag = "style"
    /\ uploaded_refs[2].tag = "character"
    /\ num_images = 2
    /\ submits[2] = 1
    /\ payload.prompt[1].num = 2
    /\ payload.init_image_ids = <<1, 2>>

\* the scene of the latest create-generation request
LastSubmitted == CHOOSE k \in Requested_n :
    submits[k] >= 1 /\ \A j \in (k + 1)..num_images : submits[j] = 0
KindOfTag(t) == IF t \in {"character", "style", "location"} THEN t ELSE "incorporate"

\* C15: the prompt of a submitted scene is the scene clause with that
\* scene's ordinal, script line and description (empty when the scene has
\* none), then the cinematic clause, then exactly one conditioning clause
\* per registered reference, in registration order, of the kind of that
\* reference's tag and quoting its description; so the clause of a style
\* reference registered before a character reference precedes the
\* character clause.
C15_PromptOrder ==
    (\E k \in Requested_n : submits[k] >= 1) =>
        /\ Len(prompt) = 2 + Len(reference_images)
        /\ prompt[1].kind = "scene"
        /\ prompt[1].num = LastSubmitted
        /\ prompt[1].script = scenes[LastSubmitted].script
        /\ prompt[1].description = scenes[LastSubmitted].description
        /\ prompt[2].kind = "cinematic"
        /\ \A k \in 1..Len(reference_images) :
               /\ prompt[2 + k].kind = KindOfTag(reference_images[k].tag)
               /\ prompt[2 + k].description = reference_images[k].description
               /\ prompt[2 + k].kind = "incorporate" =>
                      prompt[2 + k].tag = reference_images[k].tag
        /\ \A j, k \in 1..Len(reference_images) :
               (j < k /\ reference_images[j].tag = "style"
                      /\ reference_images[k].tag = "character") =>
                   /\ prompt[2 + j].kind = "style"
                   /\ prompt[2 + k].kind = "character"
        /\ payload.prompt = prompt

C15_Witness ==
    /\ Len(reference_images) = 2
    /\ reference_images[1].tag = "style"
    /\ reference_images[2].tag = "character"
    /\ num_images = 2
    /\ submits[2] = 1
    /\ Len(prompt) = 4
    /\ prompt[1].description = "desc"
    /\ prompt[3].kind = "style"
    /\ prompt[4].kind = "character"

\* the stripped non-blank lines of the script, in order
NonBlank == SelectSeq([k \in 1..Len(lines) |-> strip(lines[k])], LAMBDA l : l /= <<>>)
RECURSIVE Used(_)
\* the lines a list of scenes is made of: script line, then description if any
Used(sc) == IF sc = <<>> THEN <<>>
            ELSE <<Head(sc).script>>
                 \o (IF Head(sc).description /= <<>> THEN <<Head(sc).description>> ELSE <<>>)
                 \o Used(Tail(sc))
IsBlank(k) == strip(lines[k]) = <<>>

\* C14: parse_script ends on every text; its index never leaves the lines
\* by more than one; a blank line is skipped, a non-blank line starts a
\* scene whose description is the next line when there is one and it is
\* non-blank (the index then moves on by two, else by one); the scenes
\* returned are made of the non-blank lines, stripped, each used exactly
\* once and in the order of the text, so a text without a non-blank line
\* gives the empty list.
C14_PairedMode ==
    /\ <>(pc = "parsed")
    /\ [](pc \in {"parse_script", "parsed"} /\ i \in 1..(Len(lines) + 1))
    /\ [](pc = "parsed" =>
             /\ i = Len(lines) + 1
             /\ Used(scenes) = NonBlank
             /\ (\A k \in 1..Len(lines) : IsBlank(k)) => scenes = <<>>
             /\ \A k \in 1..Len(scenes) : scenes[k].script /= <<>>)
    /\ [][(pc = "parse_script" /\ i' /= i) =>
              IF IsBlank(i) THEN i' = i + 1 /\ scenes' = scenes
              ELSE IF i + 1 <= Len(lines) /\ ~IsBlank(i + 1)
                   THEN /\ i' = i + 2
                        /\ scenes' = Append(scenes, [script |-> strip(lines[i]),
                                                     description |-> strip(lines[i + 1])])
                   ELSE /\ i' = i + 1
                        /\ scenes' = Append(scenes, [script |-> strip(lines[i]),
                                                     description |-> <<>>])]_vars

C14_Witness ==
    /\ pc = "parsed"
    /\ Len(lines) = 3
    /\ IsBlank(1)
    /\ lines[1] /= <<>>
    /\ Len(scenes) = 1
    /\ scenes[1].script /= scenes[1].description
    /\ scenes[1].description /= <<>>
====
